---- MODULE Spec2Model ----
(***************************************************************************)
(* Model of gosseract's Client (src/client.go): the lazily initialised     *)
(* Tesseract handle, the owned pix image, the deferred variables and the   *)
(* init -> prepare -> extract pipeline.  Every method is a function from   *)
(* the state it starts in, and what the engine answers, to the state it    *)
(* leaves, the error it returns and the calls it made on the C bridge.     *)
(***************************************************************************)
EXTENDS Naturals, Sequences, FiniteSets, TLC

\* ------------------------------------------------------------------------
\* Bounds of the model
\* ------------------------------------------------------------------------
\* number of pix images the engine may hand out in one behaviour
MaxHandles == 2
\* C.Free calls on the api are counted up to this value (saturating)
MaxFree == 2
\* C.DestroyPixImage calls per image are counted up to this value (saturating)
DestroyCap == 2

\* ------------------------------------------------------------------------
\* Inputs
\* ------------------------------------------------------------------------
ImagePaths == {"", "a.png"}
ImageDatas == {<<>>, <<137, 80>>}
LanguageLists == {<<>>, <<"eng", "jpn">>}
ConfigPaths == {"tess.cfg", "confdir", "nope.cfg"}
TESSEDIT_CHAR_WHITELIST == "tessedit_char_whitelist"
TESSEDIT_CHAR_BLACKLIST == "tessedit_char_blacklist"
SettableVariables == {TESSEDIT_CHAR_WHITELIST, TESSEDIT_CHAR_BLACKLIST}
VariableValues == {"ab", "cd"}
PageSegModes == {6}
\* status codes C.Init may report
InitResults == {0, 1}
\* strings C.UTF8Text and C.HOCRText may answer with
EngineTexts ==
    {"", "\n", "Hello World", "\nHello World\n", "\n\n a\n\tb \n\n",
     " \nx\n\t", "\n<p>\n</p>"}
\* what a call on a freed api, or a second destroy of a pix, may do
UBOutcomes == {"run", "abort"}

\* the goroutines that call methods of one client
Threads == {1, 2}

\* the file system the client looks at with os.Stat
RegularFiles == {"a.png", "tess.cfg"}
Directories == {"confdir"}

\* ------------------------------------------------------------------------
\* Errors returned by the client (nil is ErrNil)
\* ------------------------------------------------------------------------
ErrNil == "nil"
ErrStat == "stat: no such file or directory"
ErrIsDir == "the specified config file path seems to be a directory"
ErrInit == "failed to initialize TessBaseAPI with code 1"
ErrInvalidPath == "invalid path will be set"
ErrNotExist == "file does not exist"
ErrVariable(key, value) ==
    "failed to set variable with key(" \o key \o "):value(" \o value \o ")"

VARIABLES
    pixImage,        \* Client.pixImage: 0 is nil, otherwise the image's id
    Initialized,     \* Client.Initialized
    Languages,       \* Client.Languages
    ImagePath,       \* Client.ImagePath
    ImageData,       \* Client.ImageData
    Variables,       \* Client.Variables: a function on the keys that are set
    PageSegMode,     \* Client.PageSegMode: <<>> is nil, <<m>> points to m
    ConfigFilePath,  \* Client.ConfigFilePath
    Trim,            \* Client.Trim
    freeCount,       \* engine: C.Free calls made on Client.api
    created,         \* engine: number of pix images handed out so far
    destroyCount,    \* engine: C.DestroyPixImage calls per pix image
    files,           \* file system: the regular files that exist
    aborted,         \* the process died inside a call on released memory
    pc,              \* per goroutine: where it stands in the method it runs
    img,             \* per goroutine: the pix it has loaded or been handed
    initTwice,       \* engine: C.Init was called on an api set up already
    overlapped       \* two goroutines have been inside a method at once

vars == <<pixImage, Initialized, Languages, ImagePath, ImageData, Variables,
          PageSegMode, ConfigFilePath, Trim, freeCount, created,
          destroyCount, files, aborted, pc, img, initTwice, overlapped>>

\* what belongs to the goroutines that call the client
threadVars == <<pc, img, initTwice, overlapped>>

\* ------------------------------------------------------------------------
\* Helpers
\* ------------------------------------------------------------------------
Min(a, b) == IF a < b THEN a ELSE b

\* the orders in which a Go map with key set S may be ranged over
Orders(S) ==
    {o \in [1..Cardinality(S) -> S] : \A i, j \in 1..Cardinality(S) :
                                          o[i] = o[j] => i = j}

\* os.Stat
Stat(fs, path) ==
    IF path \in fs THEN "file"
    ELSE IF path \in Directories THEN "dir"
    ELSE "none"

\* strings.Join(elems, sep)
RECURSIVE Join(_, _)
Join(elems, sep) ==
    IF elems = <<>> THEN ""
    ELSE IF Len(elems) = 1 THEN elems[1]
    ELSE elems[1] \o sep \o Join(Tail(elems), sep)

\* one call on the C bridge: a *C.char argument is <<>> (NULL) or <<s>>
Call(op, args, n) == [op |-> op, args |-> args, n |-> n]

\* the state an operation works on: the client, the engine and the file
\* system, with the error the operation returns and the calls it makes
World ==
    [pixImage |-> pixImage, Initialized |-> Initialized,
     Languages |-> Languages, ImagePath |-> ImagePath,
     ImageData |-> ImageData, Variables |-> Variables,
     PageSegMode |-> PageSegMode, ConfigFilePath |-> ConfigFilePath,
     Trim |-> Trim,
     freeCount |-> freeCount, created |-> created,
     destroyCount |-> destroyCount, files |-> files,
     aborted |-> FALSE, err |-> ErrNil, calls |-> <<>>]

\* what the engine answers during one operation: what a call on released
\* memory does, the status of Init, whether the image can be read, the order
\* in which the map of variables is ranged over, the variables it rejects.
\* A call can only go wrong on released memory, Init only runs on a client
\* that is not Initialized, an image is only read when none is bound.
UBChoices(w) ==
    IF w.freeCount > 0 \/ (w.pixImage # 0 /\ w.destroyCount[w.pixImage] > 0)
    THEN UBOutcomes ELSE {"run"}

EngineOutcomes(w) ==
    {[ub |-> u, res |-> r, decoded |-> d, order |-> o, rejected |-> j] :
        u \in UBChoices(w),
        r \in IF w.Initialized THEN {0} ELSE InitResults,
        d \in IF w.pixImage = 0 THEN BOOLEAN ELSE {TRUE},
        o \in Orders(DOMAIN w.Variables),
        j \in SUBSET DOMAIN w.Variables}

\* a call that takes Client.api; on a freed api it is a use after free
ApiCall(w, call, ub) ==
    IF w.aborted THEN w
    ELSE IF w.freeCount > 0 /\ ub = "abort"
         THEN [w EXCEPT !.calls = Append(@, call), !.aborted = TRUE]
         ELSE [w EXCEPT !.calls = Append(@, call)]

\* C.Free(client.api)
ApiFree(w, ub) ==
    LET w1 == ApiCall(w, Call("Free", <<>>, 0), ub)
    IN  IF w1.aborted THEN w1
        ELSE [w1 EXCEPT !.freeCount = Min(@ + 1, MaxFree)]

\* C.DestroyPixImage(pix); a second destroy of the same pix is a double free
DestroyPixImage(w, pix, ub) ==
    IF w.aborted THEN w
    ELSE LET w1 == [w EXCEPT !.calls = Append(@, Call("DestroyPixImage", <<>>, pix)),
                             !.destroyCount[pix] = Min(@ + 1, DestroyCap)]
         IN  IF w.destroyCount[pix] > 0 /\ ub = "abort"
             THEN [w1 EXCEPT !.aborted = TRUE]
             ELSE w1

\* C.SetImage / C.SetImageFromBuffer: the engine reads the image and returns
\* the pix it made, or NULL when it cannot decode the input
CreatePix(w, call, decoded, ub) ==
    LET w1 == ApiCall(w, call, ub)
    IN  IF w1.aborted THEN w1
        ELSE IF decoded
             THEN [w1 EXCEPT !.created = @ + 1,
                             !.pixImage = w.created + 1,
                             !.destroyCount =
                                 [h \in 1..(w.created + 1) |->
                                     IF h <= w.created THEN @[h] ELSE 0]]
             ELSE [w1 EXCEPT !.pixImage = 0]

\* ------------------------------------------------------------------------
\* The methods of Client, as functions of the state they work on
\* ------------------------------------------------------------------------
\* faulty variant of Close: the pix is forgotten without being destroyed
Client_Close_leak(w, ub) ==
    LET w1 == ApiCall(w, Call("Clear", <<>>, 0), ub)
        w2 == ApiFree(w1, ub)
    IN  IF w2.aborted THEN w2 ELSE [w2 EXCEPT !.pixImage = 0]

Client_Close(w, ub) ==
    LET w1 == ApiCall(w, Call("Clear", <<>>, 0), ub)
        w2 == ApiFree(w1, ub)
    IN  IF w2.aborted THEN w2
        ELSE IF w2.pixImage # 0
             THEN LET d == DestroyPixImage(w2, w2.pixImage, ub)
                  IN  IF d.aborted THEN d ELSE [d EXCEPT !.pixImage = 0]
             ELSE w2

\* faulty variant of SetImage: the pix is destroyed but the reference is kept
Client_SetImage_dangling(w, imagepath, ub) ==
    LET w1 == IF w.pixImage # 0
              THEN DestroyPixImage(w, w.pixImage, ub)
              ELSE w
    IN  IF w1.aborted THEN w1 ELSE [w1 EXCEPT !.ImagePath = imagepath]

Client_SetImage(w, imagepath, ub) ==
    LET w1 == IF w.pixImage # 0
              THEN LET d == DestroyPixImage(w, w.pixImage, ub)
                   IN  IF d.aborted THEN d ELSE [d EXCEPT !.pixImage = 0]
              ELSE w
    IN  IF w1.aborted THEN w1 ELSE [w1 EXCEPT !.ImagePath = imagepath]

Client_SetImageFromBytes(w, data, ub) ==
    LET w1 == IF w.pixImage # 0
              THEN LET d == DestroyPixImage(w, w.pixImage, ub)
                   IN  IF d.aborted THEN d ELSE [d EXCEPT !.pixImage = 0]
              ELSE w
    IN  IF w1.aborted THEN w1 ELSE [w1 EXCEPT !.ImageData = data]

\* faulty variant of SetLanguage: Initialized is left as it was
Client_SetLanguage_keepsInit(w, langs) ==
    [w EXCEPT !.Languages = langs]

Client_SetLanguage(w, langs) ==
    [w EXCEPT !.Initialized = FALSE, !.Languages = langs]

\* faulty variant of SetVariable: a key that is already there keeps the value
\* it was first given
Client_SetVariable_firstWins(w, key, value) ==
    [w EXCEPT !.Variables = [k \in DOMAIN @ \cup {key} |->
                                 IF k \in DOMAIN @ THEN @[k] ELSE value]]

Client_SetVariable(w, key, value) ==
    [w EXCEPT !.Variables = [k \in DOMAIN @ \cup {key} |->
                                 IF k = key THEN value ELSE @[k]]]

Client_SetWhitelist(w, whitelist) ==
    Client_SetVariable(w, TESSEDIT_CHAR_WHITELIST, whitelist)

Client_SetBlacklist(w, whitelist) ==
    Client_SetVariable(w, TESSEDIT_CHAR_BLACKLIST, whitelist)

\* faulty variant of SetPageSegMode: the mode is taken for a setting of Init
Client_SetPageSegMode_invalidates(w, mode) ==
    [w EXCEPT !.Initialized = FALSE, !.PageSegMode = <<mode>>]

Client_SetPageSegMode(w, mode) ==
    [w EXCEPT !.PageSegMode = <<mode>>]

\* faulty variant of SetConfigFile: Initialized is reset before the path is
\* looked at
Client_SetConfigFile_early(w, fpath) ==
    IF Stat(w.files, fpath) = "none"
    THEN [w EXCEPT !.Initialized = FALSE, !.err = ErrStat]
    ELSE IF Stat(w.files, fpath) = "dir"
         THEN [w EXCEPT !.Initialized = FALSE, !.err = ErrIsDir]
    ELSE [w EXCEPT !.Initialized = FALSE, !.ConfigFilePath = fpath]

Client_SetConfigFile(w, fpath) ==
    IF Stat(w.files, fpath) = "none" THEN [w EXCEPT !.err = ErrStat]
    ELSE IF Stat(w.files, fpath) = "dir" THEN [w EXCEPT !.err = ErrIsDir]
    ELSE [w EXCEPT !.Initialized = FALSE, !.ConfigFilePath = fpath]

charLangs(w) ==
    IF Len(w.Languages) # 0 THEN <<Join(w.Languages, "+")>> ELSE <<>>

charConfig(w) ==
    IF Stat(w.files, w.ConfigFilePath) # "none"
    THEN <<w.ConfigFilePath>> ELSE <<>>

\* faulty variant of init: the engine is initialised on every call
Client_init_always(w, e) ==
    LET w1 == ApiCall(w, Call("Init", <<charLangs(w), charConfig(w)>>, 0), e.ub)
    IN  IF w1.aborted THEN w1
        ELSE IF e.res # 0 THEN [w1 EXCEPT !.err = ErrInit]
        ELSE [w1 EXCEPT !.Initialized = TRUE]

\* faulty variant of init: Initialized is set before the status is looked at
Client_init_cached(w, e) ==
    IF w.Initialized THEN w
    ELSE LET w1 == ApiCall(w, Call("Init", <<charLangs(w), charConfig(w)>>, 0),
                           e.ub)
         IN  IF w1.aborted THEN w1
             ELSE IF e.res # 0
                  THEN [w1 EXCEPT !.Initialized = TRUE, !.err = ErrInit]
             ELSE [w1 EXCEPT !.Initialized = TRUE]

Client_init(w, e) ==
    IF w.Initialized THEN w
    ELSE LET langs == charLangs(w)
             config == charConfig(w)
             w1 == ApiCall(w, Call("Init", <<langs, config>>, 0), e.ub)
         IN  IF w1.aborted THEN w1
             ELSE IF e.res # 0 THEN [w1 EXCEPT !.err = ErrInit]
             ELSE [w1 EXCEPT !.Initialized = TRUE]

\* faulty variant of bind: the engine's refusal of the variable is not
\* reported
Client_bind_swallow(w, key, value, e) ==
    ApiCall(w, Call("SetVariable", <<<<key>>, <<value>>>>, 0), e.ub)

\* bind leaves in .err whether the engine took the variable
Client_bind(w, key, value, e) ==
    LET w1 == ApiCall(w, Call("SetVariable", <<<<key>>, <<value>>>>, 0), e.ub)
    IN  IF w1.aborted \/ key \notin e.rejected THEN w1
        ELSE [w1 EXCEPT !.err = ErrVariable(key, value)]

\* the range loop of prepare over Client.Variables, in the order the map gives
RECURSIVE bindVariables(_, _, _)
bindVariables(w, order, e) ==
    IF order = <<>> \/ w.aborted \/ w.err # ErrNil THEN w
    ELSE bindVariables(
             Client_bind(w, Head(order), w.Variables[Head(order)], e),
             Tail(order), e)

\* faulty variant of the image branch: the empty path is not turned away
prepareImage_noPathCheck(w, e) ==
    IF w.pixImage = 0
    THEN IF Len(w.ImageData) > 0
         THEN CreatePix(w, Call("SetImageFromBuffer", <<>>, Len(w.ImageData)),
                        e.decoded, e.ub)
         ELSE IF Stat(w.files, w.ImagePath) = "none"
              THEN [w EXCEPT !.err = ErrNotExist]
         ELSE CreatePix(w, Call("SetImage", <<<<w.ImagePath>>>>, 0),
                        e.decoded, e.ub)
    ELSE ApiCall(w, Call("SetPixImage", <<>>, w.pixImage), e.ub)

\* faulty variant of the image branch: a path that is set is preferred to the
\* bytes
prepareImage_pathFirst(w, e) ==
    IF w.pixImage = 0
    THEN IF w.ImagePath # ""
         THEN IF Stat(w.files, w.ImagePath) = "none"
              THEN [w EXCEPT !.err = ErrNotExist]
              ELSE CreatePix(w, Call("SetImage", <<<<w.ImagePath>>>>, 0),
                             e.decoded, e.ub)
         ELSE IF Len(w.ImageData) > 0
              THEN CreatePix(w, Call("SetImageFromBuffer", <<>>,
                                     Len(w.ImageData)), e.decoded, e.ub)
         ELSE [w EXCEPT !.err = ErrInvalidPath]
    ELSE ApiCall(w, Call("SetPixImage", <<>>, w.pixImage), e.ub)

\* faulty variant of the image branch: the image is read again on every call
prepareImage_alwaysCreate(w, e) ==
    IF Len(w.ImageData) > 0
    THEN CreatePix(w, Call("SetImageFromBuffer", <<>>, Len(w.ImageData)),
                   e.decoded, e.ub)
    ELSE IF w.ImagePath = "" THEN [w EXCEPT !.err = ErrInvalidPath]
    ELSE IF Stat(w.files, w.ImagePath) = "none"
         THEN [w EXCEPT !.err = ErrNotExist]
    ELSE CreatePix(w, Call("SetImage", <<<<w.ImagePath>>>>, 0),
                   e.decoded, e.ub)

\* the image branch of prepare
prepareImage(w, e) ==
    IF w.pixImage = 0
    THEN IF Len(w.ImageData) > 0
         THEN CreatePix(w, Call("SetImageFromBuffer", <<>>, Len(w.ImageData)),
                        e.decoded, e.ub)
         ELSE IF w.ImagePath = "" THEN [w EXCEPT !.err = ErrInvalidPath]
         ELSE IF Stat(w.files, w.ImagePath) = "none"
              THEN [w EXCEPT !.err = ErrNotExist]
         ELSE CreatePix(w, Call("SetImage", <<<<w.ImagePath>>>>, 0),
                        e.decoded, e.ub)
    ELSE ApiCall(w, Call("SetPixImage", <<>>, w.pixImage), e.ub)

\* faulty variant of prepare: the page segmentation mode is set before the
\* variables are bound
Client_prepare_modeFirst(w, e) ==
    LET w1 == prepareImage(w, e)
        w2 == IF w1.aborted \/ w1.err # ErrNil THEN w1
              ELSE IF w1.PageSegMode # <<>>
                   THEN ApiCall(w1, Call("SetPageSegMode", <<>>,
                                         w1.PageSegMode[1]), e.ub)
                   ELSE w1
    IN  IF w2.aborted \/ w2.err # ErrNil THEN w2
        ELSE bindVariables(w2, e.order, e)

Client_prepare(w, e) ==
    LET w1 == prepareImage(w, e)
        w2 == IF w1.aborted \/ w1.err # ErrNil THEN w1
              ELSE bindVariables(w1, e.order, e)
    IN  IF w2.aborted \/ w2.err # ErrNil THEN w2
        ELSE IF w2.PageSegMode # <<>>
             THEN ApiCall(w2, Call("SetPageSegMode", <<>>, w2.PageSegMode[1]),
                          e.ub)
             ELSE w2

Client_Text(w, e) ==
    LET w1 == Client_init(w, e)
        w2 == IF w1.aborted \/ w1.err # ErrNil THEN w1
              ELSE Client_prepare(w1, e)
    IN  IF w2.aborted \/ w2.err # ErrNil THEN w2
        ELSE ApiCall(w2, Call("UTF8Text", <<>>, 0), e.ub)

Client_HOCRText(w, e) ==
    LET w1 == Client_init(w, e)
        w2 == IF w1.aborted \/ w1.err # ErrNil THEN w1
              ELSE Client_prepare(w1, e)
    IN  IF w2.aborted \/ w2.err # ErrNil THEN w2
        ELSE ApiCall(w2, Call("HOCRText", <<>>, 0), e.ub)

\* strings.TrimLeft and strings.TrimRight: the characters of cutset are
\* taken off one end of s for as long as there is one
RECURSIVE strings_TrimLeft(_, _)
strings_TrimLeft(s, cutset) ==
    IF Len(s) > 0 /\ SubSeq(s, 1, 1) \in cutset
    THEN strings_TrimLeft(SubSeq(s, 2, Len(s)), cutset)
    ELSE s

RECURSIVE strings_TrimRight(_, _)
strings_TrimRight(s, cutset) ==
    IF Len(s) > 0 /\ SubSeq(s, Len(s), Len(s)) \in cutset
    THEN strings_TrimRight(SubSeq(s, 1, Len(s) - 1), cutset)
    ELSE s

\* strings.Trim(s, cutset), cutset as the set of its characters
strings_Trim(s, cutset) ==
    strings_TrimRight(strings_TrimLeft(s, cutset), cutset)

\* faulty variant of Text: blanks and tabs are trimmed with the newlines
Text_out_trimSpace(r, text) ==
    IF r.aborted \/ r.err # ErrNil THEN ""
    ELSE IF r.Trim THEN strings_Trim(text, {"\n", " ", "\t"})
    ELSE text

\* the string Text returns with the state r it leaves, when the engine
\* answers UTF8Text with text: the named result out is empty on the error
\* returns
Text_out(r, text) ==
    IF r.aborted \/ r.err # ErrNil THEN ""
    ELSE IF r.Trim THEN strings_Trim(text, {"\n"})
    ELSE text

\* faulty variant of HOCRText: the engine's answer is returned with the error
HOCRText_out_partial(r, text) ==
    IF r.aborted THEN "" ELSE text

\* the string HOCRText returns with the state r it leaves, when the engine
\* answers HOCRText with text
HOCRText_out(r, text) ==
    IF r.aborted \/ r.err # ErrNil THEN "" ELSE text

\* ------------------------------------------------------------------------
\* The state machine
\* ------------------------------------------------------------------------
\* the client, the engine and the process take the state a step left
Store(r) ==
    /\ r.created <= MaxHandles
    /\ pixImage' = r.pixImage
    /\ Initialized' = r.Initialized
    /\ Languages' = r.Languages
    /\ ImagePath' = r.ImagePath
    /\ ImageData' = r.ImageData
    /\ Variables' = r.Variables
    /\ PageSegMode' = r.PageSegMode
    /\ ConfigFilePath' = r.ConfigFilePath
    /\ Trim' = r.Trim
    /\ freeCount' = r.freeCount
    /\ created' = r.created
    /\ destroyCount' = r.destroyCount
    /\ aborted' = r.aborted
    /\ UNCHANGED files

\* a method called by one goroutine, with no other inside the client
Commit(r) == Store(r) /\ UNCHANGED threadVars

\* NewClient, on any file system
Init ==
    /\ pixImage = 0
    /\ Initialized = FALSE
    /\ Languages = <<>>
    /\ ImagePath = ""
    /\ ImageData = <<>>
    /\ Variables = <<>>
    /\ PageSegMode = <<>>
    /\ ConfigFilePath = ""
    /\ Trim = TRUE
    /\ freeCount = 0
    /\ created = 0
    /\ destroyCount = <<>>
    /\ files \in SUBSET RegularFiles
    /\ aborted = FALSE
    /\ pc = [t \in Threads |-> "idle"]
    /\ img = [t \in Threads |-> 0]
    /\ initTwice = FALSE
    /\ overlapped = FALSE

Close ==
    /\ ~aborted
    /\ \E ub \in UBChoices(World) : Commit(Client_Close(World, ub))

SetImage ==
    /\ ~aborted
    /\ \E imagepath \in ImagePaths, ub \in UBChoices(World) :
           Commit(Client_SetImage(World, imagepath, ub))

SetImageFromBytes ==
    /\ ~aborted
    /\ \E data \in ImageDatas, ub \in UBChoices(World) :
           Commit(Client_SetImageFromBytes(World, data, ub))

SetLanguage ==
    /\ ~aborted
    /\ \E langs \in LanguageLists : Commit(Client_SetLanguage(World, langs))

SetVariable ==
    /\ ~aborted
    /\ \E key \in SettableVariables, value \in VariableValues :
           Commit(Client_SetVariable(World, key, value))

SetWhitelist ==
    /\ ~aborted
    /\ \E whitelist \in VariableValues :
           Commit(Client_SetWhitelist(World, whitelist))

SetBlacklist ==
    /\ ~aborted
    /\ \E whitelist \in VariableValues :
           Commit(Client_SetBlacklist(World, whitelist))

SetPageSegMode ==
    /\ ~aborted
    /\ \E mode \in PageSegModes : Commit(Client_SetPageSegMode(World, mode))

SetConfigFile ==
    /\ ~aborted
    /\ \E fpath \in ConfigPaths : Commit(Client_SetConfigFile(World, fpath))

Text ==
    /\ ~aborted
    /\ \E e \in EngineOutcomes(World) : Commit(Client_Text(World, e))

HOCRText ==
    /\ ~aborted
    /\ \E e \in EngineOutcomes(World) : Commit(Client_HOCRText(World, e))

\* a file the client refers to appears or disappears
FileChange ==
    /\ ~aborted
    /\ \E f \in RegularFiles :
           files' = IF f \in files THEN files \ {f} ELSE files \cup {f}
    /\ UNCHANGED <<pixImage, Initialized, Languages, ImagePath, ImageData,
                   Variables, PageSegMode, ConfigFilePath, Trim, freeCount,
                   created, destroyCount, aborted, threadVars>>

Next ==
    \/ Close
    \/ SetImage
    \/ SetImageFromBytes
    \/ SetLanguage
    \/ SetVariable
    \/ SetWhitelist
    \/ SetBlacklist
    \/ SetPageSegMode
    \/ SetConfigFile
    \/ Text
    \/ HOCRText
    \/ FileChange

Spec == Init /\ [][Next]_vars

\* the caller assigns the exported field Trim
SetTrim ==
    /\ ~aborted
    /\ \E b \in BOOLEAN : Trim' = b
    /\ UNCHANGED <<pixImage, Initialized, Languages, ImagePath, ImageData,
                   Variables, PageSegMode, ConfigFilePath, freeCount, created,
                   destroyCount, files, aborted, threadVars>>

\* the operations that bear on the string an extraction returns: the field
\* Trim, the image that is read, the extractions, Close and the files
NextTrim ==
    \/ SetTrim
    \/ SetImage
    \/ SetImageFromBytes
    \/ Text
    \/ HOCRText
    \/ Close
    \/ FileChange

SpecTrim == Init /\ [][NextTrim]_vars

\* ------------------------------------------------------------------------
\* Two goroutines on one client.  The methods take no lock: each read and
\* each write of a field, and each call on the engine, is a step of its own,
\* and the steps of the two goroutines interleave.
\* ------------------------------------------------------------------------
sharedVars == <<pixImage, Initialized, Languages, ImagePath, ImageData,
                Variables, PageSegMode, ConfigFilePath, Trim, freeCount,
                created, destroyCount, files, aborted>>

\* goroutine t moves on; it overlaps when another goroutine is inside a method
Step(t, label) ==
    /\ pc' = [pc EXCEPT ![t] = label]
    /\ overlapped' = (overlapped \/ \E u \in Threads \ {t} : pc[u] # "idle")

\* what a second C.DestroyPixImage of a pix may do
DestroyChoices(pix) ==
    IF destroyCount[pix] > 0 THEN UBOutcomes ELSE {"run"}

\* init: if client.Initialized { return nil }
Text_InitCheck(t) ==
    /\ ~aborted /\ pc[t] = "idle"
    /\ Step(t, IF Initialized THEN "prepare" ELSE "callInit")
    /\ UNCHANGED <<sharedVars, img, initTwice>>

\* init: res := C.Init(...); if res != 0 { return error }
Text_CallInit(t) ==
    /\ ~aborted /\ pc[t] = "callInit"
    /\ \E ub \in UBChoices(World), res \in InitResults :
           LET r == ApiCall(World,
                            Call("Init",
                                 <<charLangs(World), charConfig(World)>>, 0),
                            ub)
           IN  /\ Store(r)
               /\ Step(t, IF r.aborted \/ res # 0 THEN "idle" ELSE "setInit")
    /\ initTwice' = (\/ initTwice
                     \/ Initialized
                     \/ \E u \in Threads \ {t} : pc[u] = "setInit")
    /\ UNCHANGED img

\* init: client.Initialized = true
Text_SetInit(t) ==
    /\ ~aborted /\ pc[t] = "setInit"
    /\ Store([World EXCEPT !.Initialized = TRUE])
    /\ Step(t, "prepare")
    /\ UNCHANGED <<img, initTwice>>

\* prepare: if client.pixImage == nil, and the checks of the image source
Text_PrepareCheck(t) ==
    /\ ~aborted /\ pc[t] = "prepare"
    /\ Step(t, IF pixImage # 0 THEN "rebind"
               ELSE IF Len(ImageData) > 0 THEN "create"
               ELSE IF ImagePath = "" THEN "idle"
               ELSE IF Stat(files, ImagePath) = "none" THEN "idle"
               ELSE "create")
    /\ UNCHANGED <<sharedVars, img, initTwice>>

\* prepare: img := C.SetImageFromBuffer(...) or img := C.SetImage(...)
Text_Create(t) ==
    /\ ~aborted /\ pc[t] = "create"
    /\ \E ub \in UBChoices(World), decoded \in BOOLEAN :
           LET call == IF Len(ImageData) > 0
                       THEN Call("SetImageFromBuffer", <<>>, Len(ImageData))
                       ELSE Call("SetImage", <<<<ImagePath>>>>, 0)
               r == CreatePix(World, call, decoded, ub)
           IN  /\ Store([r EXCEPT !.pixImage = pixImage])
               /\ img' = [img EXCEPT ![t] = IF r.aborted THEN 0 ELSE r.pixImage]
    /\ Step(t, "store")
    /\ UNCHANGED initTwice

\* client.pixImage = img
Text_storePix(w, pix) == [w EXCEPT !.pixImage = pix]

\* prepare: client.pixImage = img
Text_Store(t) ==
    /\ ~aborted /\ pc[t] = "store"
    /\ Store(Text_storePix(World, img[t]))
    /\ img' = [img EXCEPT ![t] = 0]
    /\ Step(t, "extract")
    /\ UNCHANGED initTwice

\* prepare: C.SetPixImage(client.api, client.pixImage)
Text_Rebind(t) ==
    /\ ~aborted /\ pc[t] = "rebind"
    /\ \E ub \in UBChoices(World) :
           Store(ApiCall(World, Call("SetPixImage", <<>>, pixImage), ub))
    /\ Step(t, "extract")
    /\ UNCHANGED <<img, initTwice>>

\* prepare: the variables and the page segmentation mode; Text: C.UTF8Text
Text_Extract(t) ==
    /\ ~aborted /\ pc[t] = "extract"
    /\ \E e \in EngineOutcomes(World) :
           LET w1 == bindVariables(World, e.order, e)
               w2 == IF w1.aborted \/ w1.err # ErrNil THEN w1
                     ELSE IF w1.PageSegMode # <<>>
                          THEN ApiCall(w1, Call("SetPageSegMode", <<>>,
                                                w1.PageSegMode[1]), e.ub)
                          ELSE w1
           IN  Store(IF w2.aborted \/ w2.err # ErrNil THEN w2
                     ELSE ApiCall(w2, Call("UTF8Text", <<>>, 0), e.ub))
    /\ Step(t, "idle")
    /\ UNCHANGED <<img, initTwice>>

\* if client.pixImage != nil: the pointer is loaded
loadPix(t, bound, nil) ==
    /\ img' = [img EXCEPT ![t] = pixImage]
    /\ Step(t, IF pixImage # 0 THEN bound ELSE nil)
    /\ UNCHANGED <<sharedVars, initTwice>>

\* C.DestroyPixImage(client.pixImage): with no lock the pix passed is the
\* one loaded for the test or the one in the field now; a nil pix is left
\* alone by the engine
destroyLoaded(t, next) ==
    /\ \E pix \in {img[t], pixImage} :
           IF pix = 0 THEN UNCHANGED sharedVars
           ELSE \E ub \in DestroyChoices(pix) :
                    Store(DestroyPixImage(World, pix, ub))
    /\ img' = [img EXCEPT ![t] = 0]
    /\ Step(t, next)
    /\ UNCHANGED initTwice

\* faulty variant of the assignment: the reference is kept
clearPix_kept(w) == w

\* client.pixImage = nil
clearPix(w) == [w EXCEPT !.pixImage = 0]

\* SetImage: if client.pixImage != nil
SetImage_Check(t) ==
    /\ ~aborted /\ pc[t] = "idle"
    /\ loadPix(t, "si_destroy", "si_path")

\* SetImage: C.DestroyPixImage(client.pixImage)
SetImage_Destroy(t) ==
    /\ ~aborted /\ pc[t] = "si_destroy"
    /\ destroyLoaded(t, "si_clear")

\* SetImage: client.pixImage = nil
SetImage_Clear(t) ==
    /\ ~aborted /\ pc[t] = "si_clear"
    /\ Store(clearPix(World))
    /\ Step(t, "si_path")
    /\ UNCHANGED <<img, initTwice>>

\* SetImage: client.ImagePath = imagepath
SetImage_Path(t) ==
    /\ ~aborted /\ pc[t] = "si_path"
    /\ \E imagepath \in ImagePaths :
           Store([World EXCEPT !.ImagePath = imagepath])
    /\ Step(t, "idle")
    /\ UNCHANGED <<img, initTwice>>

\* Close: C.Clear(client.api)
Close_Clear(t) ==
    /\ ~aborted /\ pc[t] = "idle"
    /\ \E ub \in UBChoices(World) :
           Store(ApiCall(World, Call("Clear", <<>>, 0), ub))
    /\ Step(t, "cl_free")
    /\ UNCHANGED <<img, initTwice>>

\* Close: C.Free(client.api)
Close_Free(t) ==
    /\ ~aborted /\ pc[t] = "cl_free"
    /\ \E ub \in UBChoices(World) : Store(ApiFree(World, ub))
    /\ Step(t, "cl_check")
    /\ UNCHANGED <<img, initTwice>>

\* Close: if client.pixImage != nil
Close_Check(t) ==
    /\ ~aborted /\ pc[t] = "cl_check"
    /\ loadPix(t, "cl_destroy", "idle")

\* Close: C.DestroyPixImage(client.pixImage)
Close_Destroy(t) ==
    /\ ~aborted /\ pc[t] = "cl_destroy"
    /\ destroyLoaded(t, "cl_nil")

\* Close: client.pixImage = nil
Close_Nil(t) ==
    /\ ~aborted /\ pc[t] = "cl_nil"
    /\ Store(clearPix(World))
    /\ Step(t, "idle")
    /\ UNCHANGED <<img, initTwice>>

NextConc ==
    \E t \in Threads :
        \/ Text_InitCheck(t)
        \/ Text_CallInit(t)
        \/ Text_SetInit(t)
        \/ Text_PrepareCheck(t)
        \/ Text_Create(t)
        \/ Text_Store(t)
        \/ Text_Rebind(t)
        \/ Text_Extract(t)
        \/ SetImage_Check(t)
        \/ SetImage_Destroy(t)
        \/ SetImage_Clear(t)
        \/ SetImage_Path(t)
        \/ Close_Clear(t)
        \/ Close_Free(t)
        \/ Close_Check(t)
        \/ Close_Destroy(t)
        \/ Close_Nil(t)

\* NewClient on a file system with the image and the config file, then Text,
\* SetImage and Close called from two goroutines
InitConc == Init /\ files = RegularFiles

SpecConc == InitConc /\ [][NextConc]_vars

TypeOK ==
    /\ pixImage \in 0..created
    /\ Initialized \in BOOLEAN
    /\ Trim \in BOOLEAN
    /\ created \in 0..MaxHandles
    /\ freeCount \in 0..MaxFree
    /\ DOMAIN destroyCount = 1..created

\* ------------------------------------------------------------------------
\* Properties
\* ------------------------------------------------------------------------
\* the names of the engine operations in a list of calls
Ops(calls) == {calls[i].op : i \in DOMAIN calls}

\* how often an engine operation occurs in a list of calls
Count(calls, op) == Cardinality({i \in DOMAIN calls : calls[i].op = op})

\* the operation returned, and returned no error
Succeeded(r) == ~r.aborted /\ r.err = ErrNil

\* the state the next operation starts in, after an operation that returned
After(r) == [r EXCEPT !.err = ErrNil, !.calls = <<>>]

\* Text and HOCRText under the same answers of the engine
Extraction(w, e) == {Client_Text(w, e), Client_HOCRText(w, e)}

\* the pix images that were handed out and not destroyed
LiveImages == {h \in 1..created : destroyCount[h] = 0}

\* C1: an extraction that succeeds leaves the client Initialized, and an
\* extraction on an Initialized client makes no Init call and leaves it
\* Initialized; started on a client that is not Initialized it makes exactly
\* one.  So of two successful extractions in a row the second never calls
\* Init, and the two together call it at most once.
C1_InitOnlyOnce ==
    ~aborted =>
        \A e \in EngineOutcomes(World) : \A r \in Extraction(World, e) :
            /\ Succeeded(r) => r.Initialized
            /\ Initialized => Count(r.calls, "Init") = 0 /\ r.Initialized
            /\ ~Initialized => Count(r.calls, "Init") = 1

\* an extraction has bound an image and left the client Initialized, and the
\* next Text succeeds without an Init call
C1_SecondExtraction ==
    /\ ~aborted /\ freeCount = 0
    /\ Initialized /\ pixImage # 0
    /\ \E e \in EngineOutcomes(World) :
           /\ Succeeded(Client_Text(World, e))
           /\ Count(Client_Text(World, e).calls, "Init") = 0

\* the client after SetLanguage, or after a SetConfigFile that succeeded
Invalidated(w) ==
    {Client_SetLanguage(w, langs) : langs \in LanguageLists}
    \cup {r \in {Client_SetConfigFile(w, fpath) : fpath \in ConfigPaths} :
              r.err = ErrNil}

\* C2: SetLanguage, and a SetConfigFile that succeeds (with the path the
\* client already has, too), leave Initialized false, and the first engine
\* call of the extraction that follows is Init.
C2_SettersInvalidate ==
    ~aborted =>
        \A s \in Invalidated(World) :
            /\ ~s.Initialized
            /\ \A e \in EngineOutcomes(s) : \A r \in Extraction(s, e) :
                   r.calls # <<>> /\ r.calls[1].op = "Init"

\* after an extraction that bound an image the client is Initialized, with a
\* config file that is still there: setting the same config file again, and
\* setting the languages, both force the next Text to call Init
C2_InvalidatedAfterExtraction ==
    /\ ~aborted /\ freeCount = 0
    /\ Initialized /\ pixImage # 0
    /\ ConfigFilePath # "" /\ ConfigFilePath \in files
    /\ LET s == Client_SetConfigFile(World, ConfigFilePath)
           t == Client_SetLanguage(World, <<"eng", "jpn">>)
       IN  /\ s.err = ErrNil /\ ~s.Initialized /\ ~t.Initialized
           /\ \E e \in EngineOutcomes(s) :
                  /\ Succeeded(Client_Text(s, e))
                  /\ Client_Text(s, e).calls[1].op = "Init"
           /\ \E e \in EngineOutcomes(t) :
                  /\ Succeeded(Client_Text(t, e))
                  /\ Client_Text(t, e).calls[1].op = "Init"

\* C3: the api made by NewClient is passed to C.Free at most once, whatever
\* the operations called on the client (Close called twice, too).
C3_FreeAtMostOnce == freeCount <= 1

\* C4: at most one pix image is live, it is the one the client holds, no pix
\* image is destroyed twice, and SetImage on a client that holds a pix
\* destroys that pix exactly once and clears the reference.
C4_OneLiveImage ==
    /\ Cardinality(LiveImages) <= 1
    /\ LiveImages \subseteq {pixImage}
    /\ pixImage # 0 => pixImage \in LiveImages
    /\ \A h \in 1..created : destroyCount[h] <= 1
    /\ ~aborted /\ pixImage # 0 =>
           \A imagepath \in ImagePaths, ub \in UBChoices(World) :
               LET r == Client_SetImage(World, imagepath, ub)
               IN  /\ ~r.aborted
                   /\ r.calls = <<Call("DestroyPixImage", <<>>, pixImage)>>
                   /\ r.destroyCount[pixImage] = 1
                   /\ r.pixImage = 0

\* a second pix is bound from the bytes after the first was destroyed once,
\* and SetImage destroys the second one once and leaves none
C4_SetImageAfterBytes ==
    /\ ~aborted /\ freeCount = 0
    /\ Len(ImageData) > 0
    /\ created = 2 /\ pixImage = 2 /\ destroyCount = <<1, 0>>
    /\ LET r == Client_SetImage(World, "a.png", "run")
       IN  r.destroyCount = <<1, 1>> /\ r.pixImage = 0

\* C5: the image source is one of the two: after SetImage the bytes set
\* before are gone, and the next Text reads the image from the path and not
\* from the buffer.
C5_SetImageDiscardsBytes ==
    ~aborted =>
        \A imagepath \in ImagePaths \ {""}, ub \in UBChoices(World) :
            LET s == Client_SetImage(World, imagepath, ub)
            IN  ~s.aborted =>
                    /\ Len(s.ImageData) = 0
                    /\ \A e \in EngineOutcomes(s) :
                           "SetImageFromBuffer" \notin Ops(Client_Text(s, e).calls)

\* C6: once Close has run, Text, HOCRText and Close make no call on the
\* engine.
C6_NoEngineCallAfterClose ==
    ~aborted /\ freeCount > 0 =>
        /\ \A e \in EngineOutcomes(World) : \A r \in Extraction(World, e) :
               r.calls = <<>>
        /\ \A ub \in UBChoices(World) : Client_Close(World, ub).calls = <<>>

\* C7: SetConfigFile with a path that is not there, or that is a directory,
\* returns an error and changes nothing of the client: ConfigFilePath and
\* Initialized are what they were.
C7_FailedSetConfigFile ==
    ~aborted =>
        \A fpath \in ConfigPaths :
            Stat(files, fpath) # "file" =>
                LET r == Client_SetConfigFile(World, fpath)
                IN  /\ r.err # ErrNil
                    /\ r.ConfigFilePath = ConfigFilePath
                    /\ r.Initialized = Initialized
                    /\ r = [World EXCEPT !.err = r.err]

\* an Initialized client with a config file set is given a directory, a path
\* that never existed and, its config file having been removed, its own path
C7_RejectedOnInitializedClient ==
    /\ ~aborted /\ freeCount = 0
    /\ Initialized /\ ConfigFilePath = "tess.cfg" /\ ConfigFilePath \notin files
    /\ Client_SetConfigFile(World, "confdir").err = ErrIsDir
    /\ Client_SetConfigFile(World, "nope.cfg").err = ErrStat
    /\ Client_SetConfigFile(World, "tess.cfg").err = ErrStat
    /\ Client_SetConfigFile(World, "tess.cfg").Initialized

\* the engine calls of an extraction that are past Init
PastInit(calls) == Ops(calls) \ {"Init"}

\* C8, as claimed: with neither a path nor bytes set, Text returns the
\* missing-path error and binds no image, sets no variable and extracts
\* nothing, whatever Init reports.
C8_MissingPathWhateverInit ==
    ~aborted /\ ImagePath = "" /\ Len(ImageData) = 0 =>
        \A e \in EngineOutcomes(World) :
            LET r == Client_Text(World, e)
            IN  r.err = ErrInvalidPath /\ PastInit(r.calls) = {}

\* C8, amended: with neither a path nor bytes set, Text binds no image, sets
\* no variable and extracts nothing; the error it returns is the missing-path
\* error, unless Init ran and reported a non-zero status, and then it is the
\* init error.
C8_MissingPath ==
    ~aborted /\ ImagePath = "" /\ Len(ImageData) = 0 =>
        \A e \in EngineOutcomes(World) :
            LET r == Client_Text(World, e)
            IN  /\ PastInit(r.calls) = {}
                /\ ~r.aborted =>
                       r.err = IF ~Initialized /\ e.res # 0
                               THEN ErrInit ELSE ErrInvalidPath

\* a client with variables and a mode set but no image: Text returns the
\* missing-path error after an Init that succeeds, the init error after one
\* that fails
C8_NoImageBothOutcomes ==
    /\ ~aborted /\ freeCount = 0
    /\ ImagePath = "" /\ Len(ImageData) = 0
    /\ ~Initialized /\ DOMAIN Variables # {} /\ PageSegMode # <<>>
    /\ \E e \in EngineOutcomes(World) :
           /\ Client_Text(World, e).err = ErrInvalidPath
           /\ Ops(Client_Text(World, e).calls) = {"Init"}
    /\ \E e \in EngineOutcomes(World) : Client_Text(World, e).err = ErrInit

\* the step of the pipeline an engine call belongs to
Stage(op) ==
    CASE op = "Init" -> 1
      [] op \in {"SetImage", "SetImageFromBuffer", "SetPixImage"} -> 2
      [] op = "SetVariable" -> 3
      [] op = "SetPageSegMode" -> 4
      [] op \in {"UTF8Text", "HOCRText"} -> 5
      [] OTHER -> 0

\* the calls are calls of the pipeline, every call of a step comes before
\* every call of a later step, and only the variables take several calls
InOrder(calls) ==
    \A i \in DOMAIN calls :
        /\ Stage(calls[i].op) # 0
        /\ \A j \in DOMAIN calls :
               i < j => \/ Stage(calls[i].op) < Stage(calls[j].op)
                        \/ Stage(calls[i].op) = 3 /\ Stage(calls[j].op) = 3

\* the calls of a step
StageCalls(calls, n) == {i \in DOMAIN calls : Stage(calls[i].op) = n}

\* the step an error comes from
FailedStage(err) ==
    IF err = ErrInit THEN 1
    ELSE IF err \in {ErrInvalidPath, ErrNotExist} THEN 2
    ELSE 3

\* the calls an extraction makes when every step succeeds, but for the order
\* of the variables: Init if the client is not Initialized, one call that
\* binds the image (the pix the client holds, or a new one from the bytes or
\* the path), one SetVariable per stored variable, SetPageSegMode if a mode
\* is set, and the extraction
AllSteps(w, calls, extraction) ==
    /\ Cardinality(StageCalls(calls, 1)) = IF w.Initialized THEN 0 ELSE 1
    /\ Cardinality(StageCalls(calls, 2)) = 1
    /\ \A i \in StageCalls(calls, 2) :
           calls[i] = IF w.pixImage # 0
                      THEN Call("SetPixImage", <<>>, w.pixImage)
                      ELSE IF Len(w.ImageData) > 0
                           THEN Call("SetImageFromBuffer", <<>>, Len(w.ImageData))
                           ELSE Call("SetImage", <<<<w.ImagePath>>>>, 0)
    /\ Cardinality(StageCalls(calls, 3)) = Cardinality(DOMAIN w.Variables)
    /\ \A k \in DOMAIN w.Variables :
           \E i \in StageCalls(calls, 3) :
               calls[i].args = <<<<k>>, <<w.Variables[k]>>>>
    /\ Cardinality(StageCalls(calls, 4)) = IF w.PageSegMode # <<>> THEN 1 ELSE 0
    /\ \A i \in StageCalls(calls, 4) : calls[i].n = w.PageSegMode[1]
    /\ Cardinality(StageCalls(calls, 5)) = 1
    /\ calls[Len(calls)].op = extraction

\* C9: the engine calls of Text and of HOCRText come in the order Init (if
\* the client is not Initialized), image bind, SetVariable for each stored
\* variable, SetPageSegMode (if a mode is set), extraction.  A call that
\* returns no error made all of them; a call that returns an error made no
\* call of a step after the one that failed, and stopped at the failing call.
C9_PipelineOrder ==
    ~aborted =>
        \A e \in EngineOutcomes(World) :
            LET t == Client_Text(World, e)
                h == Client_HOCRText(World, e)
                Stopped(r) ==
                    /\ \A i \in DOMAIN r.calls :
                           Stage(r.calls[i].op) <= FailedStage(r.err)
                    /\ FailedStage(r.err) # 2 =>
                           /\ r.calls # <<>>
                           /\ Stage(r.calls[Len(r.calls)].op) = FailedStage(r.err)
                    /\ FailedStage(r.err) = 2 =>
                           StageCalls(r.calls, 2) = {}
                    /\ Cardinality(StageCalls(r.calls, 1)) <= 1
                    /\ Cardinality(StageCalls(r.calls, 2)) <= 1
            IN  /\ InOrder(t.calls) /\ InOrder(h.calls)
                /\ Succeeded(t) => AllSteps(World, t.calls, "UTF8Text")
                /\ Succeeded(h) => AllSteps(World, h.calls, "HOCRText")
                /\ ~t.aborted /\ t.err # ErrNil => Stopped(t)
                /\ ~h.aborted /\ h.err # ErrNil => Stopped(h)

\* a client that is not Initialized, with an image, two variables and a mode:
\* Text makes the six calls of the five steps, and Text stops at the first
\* variable when the engine rejects it
C9_AllStepsAndAStop ==
    /\ ~aborted /\ freeCount = 0
    /\ ~Initialized /\ pixImage = 0 /\ Len(ImageData) > 0
    /\ Cardinality(DOMAIN Variables) = 2 /\ PageSegMode # <<>>
    /\ \E e \in EngineOutcomes(World) :
           /\ Succeeded(Client_Text(World, e))
           /\ Len(Client_Text(World, e).calls) = 6
    /\ \E e \in EngineOutcomes(World) :
           /\ FailedStage(Client_Text(World, e).err) = 3
           /\ Client_Text(World, e).err # ErrNil
           /\ Len(Client_Text(World, e).calls) = 3

\* the extractions on which Init reported a non-zero status
InitRejected(w) ==
    UNION {Extraction(w, e) : e \in {x \in EngineOutcomes(w) : x.res # 0}}

\* C10: when Init reports a non-zero status the extraction returns the init
\* error and leaves Initialized false, and the extraction after it starts
\* with another Init call.
C10_InitFailureNotCached ==
    ~aborted /\ ~Initialized =>
        \A r \in InitRejected(World) :
            ~r.aborted =>
                /\ r.err = ErrInit
                /\ ~r.Initialized
                /\ \A e \in EngineOutcomes(After(r)) :
                       \A r2 \in Extraction(After(r), e) :
                           r2.calls # <<>> /\ r2.calls[1].op = "Init"

\* Init fails on a client that has an image, and the Text after it calls Init
\* again and succeeds
C10_RetryAfterInitFailure ==
    /\ ~aborted /\ freeCount = 0
    /\ ~Initialized /\ ImagePath # "" /\ ImagePath \in files
    /\ \E r \in InitRejected(World) :
           /\ r.err = ErrInit /\ ~r.Initialized
           /\ \E e \in EngineOutcomes(After(r)) :
                  /\ Succeeded(Client_Text(After(r), e))
                  /\ Count(Client_Text(After(r), e).calls, "Init") = 1

\* the place in order of the first key the engine rejects, 0 if it takes all
FirstRejected(order, rejected) ==
    LET idx == {i \in 1..Len(order) : order[i] \in rejected}
    IN  IF idx = {} THEN 0 ELSE CHOOSE i \in idx : \A j \in idx : i <= j

\* C11: when the engine rejects a variable during Text or HOCRText, the call
\* returns the error that names that key and its value, the rejected
\* SetVariable is the last call made on the engine (no further variable, no
\* SetPageSegMode, no UTF8Text or HOCRText), and nothing is undone:
\* Initialized is true, the pix bound stays bound and is not destroyed, and
\* Variables is what it was.
C11_VariableRejected ==
    ~aborted =>
        \A e \in EngineOutcomes(World) : \A r \in Extraction(World, e) :
            LET n == FirstRejected(e.order, e.rejected)
            IN  (/\ ~r.aborted /\ n # 0
                 /\ r.err \notin {ErrInit, ErrInvalidPath, ErrNotExist}) =>
                    LET key == e.order[n]
                    IN  /\ r.err = ErrVariable(key, Variables[key])
                        /\ r.calls[Len(r.calls)] =
                               Call("SetVariable",
                                    <<<<key>>, <<Variables[key]>>>>, 0)
                        /\ Count(r.calls, "SetVariable") = n
                        /\ Ops(r.calls) \cap
                               {"SetPageSegMode", "UTF8Text", "HOCRText"} = {}
                        /\ r.Initialized
                        /\ pixImage # 0 => r.pixImage = pixImage
                        /\ pixImage = 0 /\ e.decoded => r.pixImage = created + 1
                        /\ \A h \in 1..created :
                               r.destroyCount[h] = destroyCount[h]
                        /\ r.pixImage # 0 => r.destroyCount[r.pixImage] = 0
                        /\ r.Variables = Variables

\* a client that was never initialized, with no pix, two variables and a page
\* segmentation mode: the engine rejects the first variable it is given, and
\* Text stops there with the client Initialized and the new pix bound
C11_FirstOfTwoRejected ==
    /\ ~aborted /\ freeCount = 0
    /\ ~Initialized /\ pixImage = 0 /\ PageSegMode # <<>>
    /\ Cardinality(DOMAIN Variables) = 2
    /\ \E e \in EngineOutcomes(World) :
           LET r == Client_Text(World, e)
           IN  /\ FirstRejected(e.order, e.rejected) = 1
               /\ r.err = ErrVariable(e.order[1], Variables[e.order[1]])
               /\ Ops(r.calls) = {"Init", "SetImage", "SetVariable"}
               /\ Count(r.calls, "SetVariable") = 1
               /\ r.Initialized /\ r.pixImage = created + 1

\* the SetVariable calls in a list of calls
VariableCalls(calls) ==
    {calls[i] : i \in {j \in DOMAIN calls : calls[j].op = "SetVariable"}}

\* one SetVariable call for each entry of a Variables map
VariableCallsFor(variables) ==
    {Call("SetVariable", <<<<k>>, <<variables[k]>>>>, 0) :
         k \in DOMAIN variables}

\* C12: every Text or HOCRText that succeeds gives the engine each entry of
\* Variables exactly once and, when PageSegMode is set, the mode exactly
\* once, on a client that was already Initialized as on one that was not; a
\* key set again is given with the value written last (SetVariable leaves in
\* Variables one entry for the key, with the new value, and the state after
\* it is again one the first part speaks of).
C12_VariablesEveryExtraction ==
    ~aborted =>
        /\ \A e \in EngineOutcomes(World) : \A r \in Extraction(World, e) :
               Succeeded(r) =>
                   /\ VariableCalls(r.calls) = VariableCallsFor(Variables)
                   /\ Count(r.calls, "SetVariable") =
                          Cardinality(DOMAIN Variables)
                   /\ Count(r.calls, "SetPageSegMode") =
                          IF PageSegMode # <<>> THEN 1 ELSE 0
                   /\ \A i \in DOMAIN r.calls :
                          r.calls[i].op = "SetPageSegMode" =>
                              r.calls[i].n = PageSegMode[1]
        /\ \A key \in SettableVariables, value \in VariableValues :
               LET s == Client_SetVariable(World, key, value)
               IN  /\ DOMAIN s.Variables = DOMAIN Variables \cup {key}
                   /\ s.Variables[key] = value
                   /\ \A k \in DOMAIN Variables \ {key} :
                          s.Variables[k] = Variables[k]
                   /\ Call("SetVariable", <<<<key>>, <<value>>>>, 0)
                          \in VariableCallsFor(s.Variables)

\* an Initialized client with a pix bound, a page segmentation mode and the
\* whitelist "ab": the whitelist is set again to "cd", and the Text after it
\* calls no Init, gives the engine the whitelist as "cd" and the mode once
C12_OverwrittenOnInitializedClient ==
    /\ ~aborted /\ freeCount = 0
    /\ Initialized /\ pixImage # 0 /\ PageSegMode # <<>>
    /\ TESSEDIT_CHAR_WHITELIST \in DOMAIN Variables
    /\ Variables[TESSEDIT_CHAR_WHITELIST] = "ab"
    /\ LET s == Client_SetWhitelist(World, "cd")
       IN  \E e \in EngineOutcomes(s) :
               LET r == Client_Text(s, e)
               IN  /\ Succeeded(r)
                   /\ Count(r.calls, "Init") = 0
                   /\ Call("SetVariable",
                           <<<<TESSEDIT_CHAR_WHITELIST>>, <<"cd">>>>, 0)
                          \in VariableCalls(r.calls)
                   /\ Count(r.calls, "SetVariable") =
                          Cardinality(DOMAIN Variables)
                   /\ Count(r.calls, "SetPageSegMode") = 1

\* C13: whenever the client is Initialized, the Init call that succeeded last
\* was given the Languages the client has now, joined with "+" (no language
\* argument when there are none), and the ConfigFilePath the client has now
\* (no config argument when none is set), also when the config file was
\* removed between SetConfigFile and the call of Init.  Initialized turns
\* true in Text and HOCRText only, so this is: the Init call of every
\* extraction that leaves the client Initialized carries these arguments.
C13_InitGivenCurrentConfig ==
    ~aborted /\ ~Initialized =>
        \A e \in EngineOutcomes(World) : \A r \in Extraction(World, e) :
            ~r.aborted /\ r.Initialized =>
                r.calls[1] =
                    Call("Init",
                         <<IF Languages = <<>> THEN <<>>
                           ELSE <<Join(Languages, "+")>>,
                           IF ConfigFilePath = "" THEN <<>>
                           ELSE <<ConfigFilePath>>>>,
                         0)

\* s is made of newline characters only
AllNewlines(s) == \A i \in 1..Len(s) : SubSeq(s, i, i) = "\n"

\* out is text without a run of newlines at its head and a run of newlines
\* at its tail, and neither run could be longer
NewlinesStripped(text, out) ==
    \E i, j \in 0..Len(text) :
        /\ i + j <= Len(text)
        /\ AllNewlines(SubSeq(text, 1, i))
        /\ AllNewlines(SubSeq(text, Len(text) - j + 1, Len(text)))
        /\ out = SubSeq(text, i + 1, Len(text) - j)
        /\ Len(out) > 0 =>
               /\ SubSeq(out, 1, 1) # "\n"
               /\ SubSeq(out, Len(out), Len(out)) # "\n"

\* C14: a Text that succeeds returns the engine's answer without its leading
\* and its trailing newlines, and otherwise as it is (newlines inside,
\* blanks and tabs stay), when Trim is true, and the answer unchanged when
\* Trim is false; a HOCRText that succeeds returns the answer unchanged
\* whatever Trim is.
C14_TrimNewlinesOnly ==
    ~aborted =>
        \A e \in EngineOutcomes(World), text \in EngineTexts :
            /\ Succeeded(Client_Text(World, e)) =>
                   IF Trim
                   THEN NewlinesStripped(
                            text, Text_out(Client_Text(World, e), text))
                   ELSE Text_out(Client_Text(World, e), text) = text
            /\ Succeeded(Client_HOCRText(World, e)) =>
                   HOCRText_out(Client_HOCRText(World, e), text) = text

\* a client that has extracted before and whose Trim was set to false: Text
\* returns the answer with its newlines; with Trim true as NewClient leaves
\* it, Text takes the newlines off both ends and leaves the blanks, the tab
\* and the newline inside; HOCRText takes off nothing
C14_TrimmedAndUntrimmed ==
    /\ ~aborted /\ freeCount = 0 /\ ~Trim
    /\ Initialized /\ pixImage # 0
    /\ \E e \in EngineOutcomes(World) :
           LET t == [World EXCEPT !.Trim = TRUE]
           IN  /\ Succeeded(Client_Text(World, e))
               /\ Text_out(Client_Text(World, e), "\nHello World\n")
                      = "\nHello World\n"
               /\ Text_out(Client_Text(t, e), "\nHello World\n")
                      = "Hello World"
               /\ Text_out(Client_Text(t, e), "\n\n a\n\tb \n\n") = " a\n\tb "
               /\ Text_out(Client_Text(t, e), "\n") = ""
               /\ HOCRText_out(Client_HOCRText(t, e), "\n<p>\n</p>")
                      = "\n<p>\n</p>"

\* C15: a Text or HOCRText that returns an error returns the empty string
\* with it, whatever the engine would have answered, and has called neither
\* UTF8Text nor HOCRText on the engine.
C15_NoTextWithError ==
    ~aborted =>
        \A e \in EngineOutcomes(World) :
            /\ LET r == Client_Text(World, e)
               IN  ~r.aborted /\ r.err # ErrNil =>
                       /\ \A text \in EngineTexts : Text_out(r, text) = ""
                       /\ Ops(r.calls) \cap {"UTF8Text", "HOCRText"} = {}
            /\ LET r == Client_HOCRText(World, e)
               IN  ~r.aborted /\ r.err # ErrNil =>
                       /\ \A text \in EngineTexts :
                              HOCRText_out(r, text) = ""
                       /\ Ops(r.calls) \cap {"UTF8Text", "HOCRText"} = {}

\* on an Initialized client with a pix bound the engine rejects a variable:
\* HOCRText and Text return the variable error and the empty string, after
\* the calls that rebind the pix and set the variable, where the same calls
\* with the variable accepted return the engine's answer
C15_RejectedVariableNoText ==
    /\ ~aborted /\ freeCount = 0
    /\ Initialized /\ pixImage # 0 /\ Variables # <<>>
    /\ \E e, ok \in EngineOutcomes(World) :
           /\ Client_HOCRText(World, e).err \notin
                  {ErrNil, ErrInit, ErrInvalidPath, ErrNotExist}
           /\ Ops(Client_HOCRText(World, e).calls) =
                  {"SetPixImage", "SetVariable"}
           /\ HOCRText_out(Client_HOCRText(World, e), "\n<p>\n</p>") = ""
           /\ Text_out(Client_Text(World, e), "Hello World") = ""
           /\ Succeeded(Client_HOCRText(World, ok))
           /\ HOCRText_out(Client_HOCRText(World, ok), "\n<p>\n</p>")
                  = "\n<p>\n</p>"

\* C16: Close on a client that was not closed before runs through, whatever
\* the state: a pix that is bound is destroyed by one DestroyPixImage call
\* and the reference is cleared, with no pix bound no DestroyPixImage call
\* is made, and after Close every pix the client has made has been destroyed
\* exactly once.
C16_CloseReleasesImage ==
    ~aborted /\ freeCount = 0 =>
        \A ub \in UBChoices(World) :
            LET r == Client_Close(World, ub)
            IN  /\ ~r.aborted
                /\ r.freeCount = 1
                /\ r.pixImage = 0
                /\ pixImage # 0 =>
                       /\ Count(r.calls, "DestroyPixImage") = 1
                       /\ Call("DestroyPixImage", <<>>, pixImage)
                              = r.calls[Len(r.calls)]
                       /\ destroyCount[pixImage] = 0
                /\ pixImage = 0 => Count(r.calls, "DestroyPixImage") = 0
                /\ r.created = created
                /\ \A h \in 1..created : r.destroyCount[h] = 1

\* the client has made two pix, a setter has destroyed the first and the
\* second is bound: Close destroys the second, once
C16_CloseWithSecondImage ==
    /\ ~aborted /\ freeCount = 0
    /\ created = 2 /\ pixImage = 2 /\ destroyCount = <<1, 0>>
    /\ LET r == Client_Close(World, "run")
       IN  /\ r.destroyCount = <<1, 1>> /\ r.pixImage = 0
           /\ Ops(r.calls) = {"Clear", "Free", "DestroyPixImage"}
           /\ Count(r.calls, "DestroyPixImage") = 1

\* r differs from the state the operation started in at most in the fields
\* named
OnlyChanged(r, fields) ==
    \A f \in DOMAIN World \ fields : r[f] = World[f]

\* C17: a setter changes its own field and nothing else.  SetImage and
\* SetImageFromBytes change the path or the bytes and release the pix;
\* SetVariable, SetWhitelist and SetBlacklist change Variables;
\* SetPageSegMode changes PageSegMode: all of them leave Initialized,
\* Languages and ConfigFilePath as they were.  SetLanguage changes Languages
\* and Initialized; with SetVariable and SetPageSegMode it leaves the pix,
\* ImagePath and ImageData as they were.
C17_SettersFrame ==
    ~aborted =>
        /\ \A imagepath \in ImagePaths, ub \in UBChoices(World) :
               LET r == Client_SetImage(World, imagepath, ub)
               IN  ~r.aborted =>
                       /\ OnlyChanged(r, {"ImagePath", "pixImage",
                                          "destroyCount", "calls"})
                       /\ r.Initialized = Initialized
                       /\ r.Languages = Languages
                       /\ r.ConfigFilePath = ConfigFilePath
        /\ \A data \in ImageDatas, ub \in UBChoices(World) :
               LET r == Client_SetImageFromBytes(World, data, ub)
               IN  ~r.aborted =>
                       /\ OnlyChanged(r, {"ImageData", "pixImage",
                                          "destroyCount", "calls"})
                       /\ r.Initialized = Initialized
                       /\ r.Languages = Languages
                       /\ r.ConfigFilePath = ConfigFilePath
        /\ \A key \in SettableVariables, value \in VariableValues :
               /\ OnlyChanged(Client_SetVariable(World, key, value),
                              {"Variables"})
               /\ Client_SetVariable(World, key, value).pixImage = pixImage
        /\ \A value \in VariableValues :
               /\ OnlyChanged(Client_SetWhitelist(World, value), {"Variables"})
               /\ OnlyChanged(Client_SetBlacklist(World, value), {"Variables"})
        /\ \A mode \in PageSegModes :
               LET r == Client_SetPageSegMode(World, mode)
               IN  /\ OnlyChanged(r, {"PageSegMode"})
                   /\ r.Initialized = Initialized
                   /\ r.pixImage = pixImage
        /\ \A langs \in LanguageLists :
               LET r == Client_SetLanguage(World, langs)
               IN  /\ OnlyChanged(r, {"Languages", "Initialized"})
                   /\ r.pixImage = pixImage
                   /\ r.ImagePath = ImagePath /\ r.ImageData = ImageData

\* an Initialized client with languages, a config file and a pix bound from
\* a path: SetImageFromBytes releases the pix and leaves the client
\* Initialized with its languages and config file, SetPageSegMode and
\* SetVariable leave it Initialized with the pix bound, SetLanguage leaves
\* the pix bound
C17_SettersOnInitializedClient ==
    /\ ~aborted /\ freeCount = 0
    /\ Initialized /\ pixImage # 0 /\ ImagePath # ""
    /\ Languages # <<>> /\ ConfigFilePath # "" /\ PageSegMode = <<>>
    /\ LET r == Client_SetImageFromBytes(World, <<137, 80>>, "run")
       IN  /\ r.pixImage = 0 /\ r.ImageData = <<137, 80>>
           /\ r.Initialized /\ r.Languages = Languages
           /\ r.ConfigFilePath = ConfigFilePath
    /\ Client_SetPageSegMode(World, 6).Initialized
    /\ Client_SetPageSegMode(World, 6).PageSegMode = <<6>>
    /\ Client_SetPageSegMode(World, 6).pixImage = pixImage
    /\ Client_SetVariable(World, TESSEDIT_CHAR_WHITELIST, "ab").Initialized
    /\ Client_SetLanguage(World, <<>>).pixImage = pixImage
    /\ ~Client_SetLanguage(World, <<>>).Initialized

\* C18: an extraction that starts with a pix bound gives the engine that pix
\* with SetPixImage and reads no image: no pix is made, none is destroyed,
\* the same pix stays bound, whether the client is Initialized or was
\* invalidated by SetLanguage or SetConfigFile just before.  An extraction
\* that starts with no pix makes at most one, and one exactly when it leaves
\* a pix bound: so extractions in a row make one pix, the first that reads
\* the image, and the others rebind it.
C18_BoundImageReused ==
    ~aborted =>
        /\ pixImage # 0 =>
               \A s \in {World} \cup Invalidated(World) :
                   \A e \in EngineOutcomes(s) : \A r \in Extraction(s, e) :
                       ~r.aborted =>
                           /\ Ops(r.calls) \cap
                                  {"SetImage", "SetImageFromBuffer"} = {}
                           /\ r.err \notin {ErrInvalidPath, ErrNotExist}
                           /\ r.err # ErrInit =>
                                  /\ Count(r.calls, "SetPixImage") = 1
                                  /\ \E i \in DOMAIN r.calls :
                                         r.calls[i] = Call("SetPixImage", <<>>,
                                                           pixImage)
                           /\ r.created = created
                           /\ r.destroyCount = destroyCount
                           /\ r.pixImage = pixImage
        /\ pixImage = 0 =>
               \A e \in EngineOutcomes(World) : \A r \in Extraction(World, e) :
                   ~r.aborted =>
                       /\ Count(r.calls, "SetPixImage") = 0
                       /\ r.created = IF r.pixImage # 0 THEN created + 1
                                      ELSE created
                       /\ r.pixImage \in {0, created + 1}

\* an Initialized client holds the one pix it has made; the languages are
\* set, the Text after it calls Init again and rebinds the same pix, and so
\* does the HOCRText after that Text: still one pix made
C18_ReboundAfterSetLanguage ==
    /\ ~aborted /\ freeCount = 0
    /\ Initialized /\ created = 1 /\ pixImage = 1
    /\ LET s == Client_SetLanguage(World, <<"eng", "jpn">>)
       IN  \E e \in EngineOutcomes(s) :
               LET r == Client_Text(s, e)
               IN  /\ Succeeded(r)
                   /\ {"Init", "SetPixImage", "UTF8Text"} \subseteq Ops(r.calls)
                   /\ r.created = 1 /\ r.pixImage = 1
                   /\ \E f \in EngineOutcomes(After(r)) :
                          LET t == Client_HOCRText(After(r), f)
                          IN  /\ Succeeded(t)
                              /\ "SetPixImage" \in Ops(t.calls)
                              /\ t.created = 1 /\ t.pixImage = 1

\* C19: an extraction that gets past Init with no pix bound reads the image
\* from the bytes when there are any, whatever the path; with no bytes it
\* goes by the path: it returns the missing-path error when the path is
\* empty and the file-not-found error when no file is at the path at that
\* moment, and otherwise reads the file.  On either error nothing of the
\* image is asked of the engine, no pix is made, none is bound, and the
\* client stays Initialized.
C19_ImageSourceBranches ==
    ~aborted /\ pixImage = 0 =>
        \A e \in EngineOutcomes(World) : \A r \in Extraction(World, e) :
            ~r.aborted /\ r.err # ErrInit =>
                IF Len(ImageData) > 0
                THEN /\ Count(r.calls, "SetImageFromBuffer") = 1
                     /\ "SetImage" \notin Ops(r.calls)
                     /\ r.err \notin {ErrInvalidPath, ErrNotExist}
                ELSE /\ "SetImageFromBuffer" \notin Ops(r.calls)
                     /\ IF ImagePath = "" THEN r.err = ErrInvalidPath
                        ELSE IF ImagePath \notin files THEN r.err = ErrNotExist
                        ELSE /\ Count(r.calls, "SetImage") = 1
                             /\ \E i \in DOMAIN r.calls :
                                    r.calls[i] =
                                        Call("SetImage", <<<<ImagePath>>>>, 0)
                             /\ r.err \notin {ErrInvalidPath, ErrNotExist}
                     /\ r.err \in {ErrInvalidPath, ErrNotExist} =>
                            /\ PastInit(r.calls) = {}
                            /\ r.created = created
                            /\ r.pixImage = 0
                            /\ r.Initialized

\* a client that is not Initialized has the path of a file that is no longer
\* there, and no bytes: Text calls Init, returns the file-not-found error and
\* leaves the client Initialized with no pix; with the path cleared it is the
\* missing-path error, and with bytes set the image is read from the bytes
C19_FileGoneAtBindTime ==
    /\ ~aborted /\ freeCount = 0
    /\ ~Initialized /\ pixImage = 0
    /\ ImagePath = "a.png" /\ "a.png" \notin files /\ ImageData = <<>>
    /\ \E e \in EngineOutcomes(World) :
           LET r == Client_Text(World, e)
           IN  /\ r.err = ErrNotExist /\ Ops(r.calls) = {"Init"}
               /\ r.Initialized /\ r.pixImage = 0 /\ r.created = created
    /\ LET s == Client_SetImage(World, "", "run")
       IN  \E e \in EngineOutcomes(s) :
               /\ Client_Text(s, e).err = ErrInvalidPath
               /\ Client_Text(s, e).Initialized
    /\ LET s == Client_SetImageFromBytes(World, <<137, 80>>, "run")
       IN  \E e \in EngineOutcomes(s) :
               /\ Succeeded(Client_Text(s, e))
               /\ "SetImageFromBuffer" \in Ops(Client_Text(s, e).calls)

\* a pix has been passed to C.DestroyPixImage twice
DestroyedTwice == \E h \in 1..created : destroyCount[h] >= 2

\* a pix is live and nothing refers to it: not the client, not a goroutine
\* that is about to store it
Leaked ==
    \E h \in LiveImages : h # pixImage /\ \A t \in Threads : img[t] # h

\* C20: with two goroutines calling Text, SetImage and Close on one client
\* and no lock, a pix is destroyed twice, a pix is made while another is live
\* and is left with no reference (a leak), and Init is called again for a
\* configuration it has set up: each of the three is reached, and none is
\* reached as long as no two calls have overlapped.
C20_FaultsOnlyWhenOverlapped ==
    DestroyedTwice \/ Leaked \/ initTwice => overlapped

\* the three together: both goroutines have called Init, both have read the
\* image and the first pix was overwritten by the second, which both have
\* then destroyed
C20_AllThreeFaults ==
    /\ overlapped /\ initTwice /\ Leaked /\ DestroyedTwice
    /\ created = 2 /\ destroyCount = <<0, 2>>
    /\ \A t \in Threads : pc[t] = "idle"

====
